---- MODULE Spec2Model ----
(***************************************************************************)
(* Model of scripts/ssh-run.py: the credential resolver get_password and   *)
(* the command executor run, driven by the __main__ block.  One process    *)
(* invocation is one pass Invoke -> Resolve -> Setup -> Connect ->         *)
(* ExecCommand -> ReadStreams -> RecvExitStatus -> CloseAndReturn -> Exit.  *)
(* The environment variables and the password files are fixed inputs; the  *)
(* known-hosts file is the only state that outlives an invocation.         *)
(*                                                                         *)
(* Text is modelled as a sequence of one-character strings so that         *)
(* str.strip() is computed rather than assumed.                            *)
(***************************************************************************)
EXTENDS Integers, Sequences, FiniteSets

\* ---------------------------------------------------------------- bounds
\* Longest text held by an environment variable or a password file.
MaxLen == 2
\* Number of process invocations explored (known_hosts persists between them).
MaxRuns == 2

\* ------------------------------------------------------------- text model
Whitespace == {" "}

TextOver(alphabet) == UNION {[1..n -> alphabet] : n \in 0..MaxLen}

\* Each source draws its text from its own letter, so that the source a
\* returned password came from can be read off the password.
FileTexts == TextOver({" ", "a"})
EnvTexts == TextOver({" ", "b"})
DefaultTexts == TextOver({" ", "c"})

RECURSIVE LStrip(_)
LStrip(s) == IF s = <<>> THEN s
             ELSE IF Head(s) \in Whitespace THEN LStrip(Tail(s)) ELSE s

RECURSIVE RStrip(_)
RStrip(s) == IF s = <<>> THEN s
             ELSE IF s[Len(s)] \in Whitespace
                  THEN RStrip(SubSeq(s, 1, Len(s) - 1)) ELSE s

\* str.strip(): leading and trailing whitespace removed.
Strip(s) == RStrip(LStrip(s))


\* ------------------------------------------------------ environment model
\* os.environ.get(name): None when the variable is not set, else its text.
EnvUnset == [set |-> FALSE, val |-> <<>>]
EnvVal(t) == [set |-> TRUE, val |-> t]

\* Python truthiness of os.environ.get(...): set and not the empty string.
Truthy(e) == e.set /\ e.val # <<>>

\* A file: absent, present but not readable, or readable with a content.
FileAbsent == [st |-> "absent", content |-> <<>>]
FileUnreadable == [st |-> "unreadable", content |-> <<>>]
FileWith(t) == [st |-> "readable", content |-> t]
FileStates(texts) == {FileAbsent, FileUnreadable} \cup {FileWith(t) : t \in texts}

\* The path SSH_PASSWORD_FILE holds when it names a file.
ExplicitPath == <<"p">>

\* ------------------------------------------------------------ get_password
\* The ways get_password can end.
PwStr(t, reads, diag) == [kind |-> "str", val |-> t, reads |-> reads, diag |-> diag]
PwNone(reads, diag) == [kind |-> "none", val |-> <<>>, reads |-> reads, diag |-> diag]
PwRaise(reads) == [kind |-> "raise", val |-> <<>>, reads |-> reads, diag |-> FALSE]

\* A mutant of get_password: SSH_PASSWORD is consulted before SSH_PASSWORD_FILE.
GetPasswordEnvFirst(pwFileEnv, pwEnv, explicitFile, defaultFile) ==
  IF Truthy(pwEnv) THEN PwStr(pwEnv.val, {}, FALSE)
  ELSE IF Truthy(pwFileEnv) THEN
    IF explicitFile.st = "readable"
    THEN PwStr(Strip(explicitFile.content), {"explicit"}, FALSE)
    ELSE PwNone({"explicit"}, TRUE)
  ELSE IF defaultFile.st # "absent" THEN
    IF defaultFile.st = "readable"
    THEN PwStr(Strip(defaultFile.content), {"default"}, FALSE)
    ELSE PwRaise({"default"})
  ELSE PwNone({}, FALSE)

\* A mutant of get_password: an unreadable SSH_PASSWORD_FILE falls through
\* to the later sources instead of returning None.
GetPasswordFallThrough(pwFileEnv, pwEnv, explicitFile, defaultFile) ==
  IF Truthy(pwFileEnv) /\ explicitFile.st = "readable"
  THEN PwStr(Strip(explicitFile.content), {"explicit"}, FALSE)
  ELSE IF Truthy(pwEnv) THEN PwStr(pwEnv.val, {}, FALSE)
  ELSE IF defaultFile.st # "absent" THEN
    IF defaultFile.st = "readable"
    THEN PwStr(Strip(defaultFile.content), {"default"}, FALSE)
    ELSE PwRaise({"default"})
  ELSE PwNone({}, FALSE)

\* get_password(): val is the returned text, reads the files read_text was
\* called on, diag whether the "Cannot read SSH_PASSWORD_FILE" line was printed.
GetPassword(pwFileEnv, pwEnv, explicitFile, defaultFile) ==
  IF Truthy(pwFileEnv) THEN
    IF explicitFile.st = "readable"
    THEN PwStr(Strip(explicitFile.content), {"explicit"}, FALSE)
    ELSE PwNone({"explicit"}, TRUE)
  ELSE IF Truthy(pwEnv) THEN PwStr(pwEnv.val, {}, FALSE)
  ELSE IF defaultFile.st # "absent" THEN
    IF defaultFile.st = "readable"
    THEN PwStr(Strip(defaultFile.content), {"default"}, FALSE)
    ELSE PwRaise({"default"})
  ELSE PwNone({}, FALSE)

\* A mutant of the test in run: only None counts as no password.
NotPasswordNoneOnly(p) == p.kind = "none"

\* `not password` in run: None or the empty string.
NotPassword(p) == p.kind = "none" \/ p.val = <<>>

\* ---------------------------------------------------------------- network
\* SSH_HOST, with its default.
Host == "213.165.58.70"
\* Host keys a server may present.
Keys == {"k1", "k2"}
NoKey == "none"

\* Exit statuses recv_exit_status may deliver: remote exit codes, and -1
\* when the server sent none.
RemoteCodes == {0, 1, 7, 255}
RecvCodes == RemoteCodes \cup {-1}

KeysOf(hostKeys, h) == {k \in Keys : <<h, k>> \in hostKeys}

\* A mutant of the host-key check: a host whose recorded key differs is
\* handed to the missing-host-key policy like an unknown host.
HostKeyVerdictLax(hostKeys, h, key) ==
  IF <<h, key>> \in hostKeys THEN "match" ELSE "unknown"

\* SSHClient.connect's host-key check against the loaded keys.
HostKeyVerdict(hostKeys, h, key) ==
  IF KeysOf(hostKeys, h) = {} THEN "unknown"
  ELSE IF <<h, key>> \in hostKeys THEN "match"
  ELSE "mismatch"

\* A mutant of the status returned without a password.
UsageStatusTwo == 1 + 1

\* The status run returns when no password was resolved.
UsageStatus == 1

\* The status of a process that ends by an uncaught exception.
UncaughtStatus == 1

\* A mutant of exit(run(cmd)): the status only says success or failure.
ExitStatusFlag(c) == IF c = 0 THEN 0 ELSE 1

\* exit(code): the process exit status is the low byte of the code.
ExitStatus(c) == c % 256

\* ------------------------------------------------------------------ state
VARIABLES
  envPwFile,    \* os.environ.get('SSH_PASSWORD_FILE')
  envPw,        \* os.environ.get('SSH_PASSWORD')
  pwFile,       \* the file SSH_PASSWORD_FILE names
  defFile,      \* ~/.ssh/md-succ-password
  khFile,       \* ~/.ssh/known_hosts: [exists, keys]
  runs,         \* invocations started
  pc,           \* where the current invocation is
  password,     \* how get_password ended in this invocation
  hint,         \* the usage hint was printed
  hkFilename,   \* client._host_keys_filename is set (load_host_keys was called)
  hostKeys,     \* client._host_keys
  serverKey,    \* the key the server presented in connect
  connectCalls, \* calls of client.connect
  execCalls,    \* calls of client.exec_command
  connected,    \* client.connect returned
  closed,       \* client.close was called
  code,         \* recv_exit_status: [got, val]
  ret,          \* how run ended: [kind, val]
  exitStatus    \* the process exit status

envVars == <<envPwFile, envPw, pwFile, defFile>>
clientVars == <<hkFilename, hostKeys, serverKey, connectCalls, execCalls, connected, closed>>
vars == <<envPwFile, envPw, pwFile, defFile, khFile, runs, pc, password, hint,
          hkFilename, hostKeys, serverKey, connectCalls, execCalls, connected,
          closed, code, ret, exitStatus>>

NoPassword == [kind |-> "unresolved", val |-> <<>>, reads |-> {}, diag |-> FALSE]
NoCode == [got |-> FALSE, val |-> 0]
NoRet == [kind |-> "running", val |-> 0]

KnownHostsStates ==
  {[exists |-> FALSE, keys |-> {}], [exists |-> TRUE, keys |-> {}]}
    \cup {[exists |-> TRUE, keys |-> {<<Host, k>>}] : k \in Keys}

Init ==
  /\ envPwFile \in {EnvUnset, EnvVal(<<>>), EnvVal(ExplicitPath)}
  /\ envPw \in {EnvUnset} \cup {EnvVal(t) : t \in EnvTexts}
  /\ pwFile \in FileStates(FileTexts)
  /\ (~Truthy(envPwFile) => pwFile = FileAbsent)
  /\ defFile \in FileStates(DefaultTexts)
  /\ khFile \in KnownHostsStates
  /\ runs = 0
  /\ pc = "idle"
  /\ password = NoPassword
  /\ hint = FALSE
  /\ hkFilename = FALSE
  /\ hostKeys = {}
  /\ serverKey = NoKey
  /\ connectCalls = 0
  /\ execCalls = 0
  /\ connected = FALSE
  /\ closed = FALSE
  /\ code = NoCode
  /\ ret = NoRet
  /\ exitStatus = 0

\* ---------------------------------------------------------------- actions
\* __main__: a new process calls run(cmd).
Invoke ==
  /\ pc \in {"idle", "exited"}
  /\ runs < MaxRuns
  /\ runs' = runs + 1
  /\ pc' = "run"
  /\ password' = NoPassword
  /\ hint' = FALSE
  /\ hkFilename' = FALSE
  /\ hostKeys' = {}
  /\ serverKey' = NoKey
  /\ connectCalls' = 0
  /\ execCalls' = 0
  /\ connected' = FALSE
  /\ closed' = FALSE
  /\ code' = NoCode
  /\ ret' = NoRet
  /\ exitStatus' = 0
  /\ UNCHANGED <<envVars, khFile>>

\* run, lines 42-44: get_password raises (the default file cannot be read).
ResolveRaise ==
  /\ pc = "run"
  /\ LET p == GetPassword(envPwFile, envPw, pwFile, defFile) IN
       /\ p.kind = "raise"
       /\ password' = p
       /\ ret' = [kind |-> "raised", val |-> 0]
       /\ pc' = "raised"
  /\ UNCHANGED <<envVars, khFile, runs, hint, clientVars, code, exitStatus>>

\* run, lines 42-50: no password; the usage hint is printed, 1 is returned.
ResolveFail ==
  /\ pc = "run"
  /\ LET p == GetPassword(envPwFile, envPw, pwFile, defFile) IN
       /\ p.kind # "raise"
       /\ NotPassword(p)
       /\ password' = p
       /\ hint' = TRUE
       /\ ret' = [kind |-> "returned", val |-> UsageStatus]
       /\ pc' = "returned"
  /\ UNCHANGED <<envVars, khFile, runs, clientVars, code, exitStatus>>

\* run, lines 42-45: a password was resolved.
ResolveOk ==
  /\ pc = "run"
  /\ LET p == GetPassword(envPwFile, envPw, pwFile, defFile) IN
       /\ p.kind # "raise"
       /\ ~NotPassword(p)
       /\ password' = p
       /\ pc' = "resolved"
  /\ UNCHANGED <<envVars, khFile, runs, hint, clientVars, code, ret, exitStatus>>

\* run, lines 52-59: the client is created, known_hosts is loaded when it
\* exists, and AutoAddPolicy is installed.
Setup ==
  /\ pc = "resolved"
  /\ hkFilename' = khFile.exists
  /\ hostKeys' = IF khFile.exists THEN khFile.keys ELSE {}
  /\ pc' = "client"
  /\ UNCHANGED <<envVars, khFile, runs, password, hint, serverKey, connectCalls,
                 execCalls, connected, closed, code, ret, exitStatus>>

\* run, line 61: connect fails before the server's key is seen (timeout,
\* refused connection).
ConnectUnreachable ==
  /\ pc = "client"
  /\ connectCalls' = connectCalls + 1
  /\ ret' = [kind |-> "raised", val |-> 0]
  /\ pc' = "raised"
  /\ UNCHANGED <<envVars, khFile, runs, password, hint, hkFilename, hostKeys,
                 serverKey, execCalls, connected, closed, code, exitStatus>>

\* run, line 61: the server presents a key that contradicts the loaded keys;
\* connect raises BadHostKeyException.
ConnectBadHostKey ==
  /\ pc = "client"
  /\ \E k \in Keys :
       /\ HostKeyVerdict(hostKeys, Host, k) = "mismatch"
       /\ serverKey' = k
  /\ connectCalls' = connectCalls + 1
  /\ ret' = [kind |-> "raised", val |-> 0]
  /\ pc' = "raised"
  /\ UNCHANGED <<envVars, khFile, runs, password, hint, hkFilename, hostKeys,
                 execCalls, connected, closed, code, exitStatus>>

\* The host-key step of connect for an accepted key: a matching key changes
\* nothing; an unknown host goes to AutoAddPolicy.missing_host_key, which adds
\* the key to client._host_keys and saves them when a filename was loaded.
AcceptHostKey(k) ==
  /\ HostKeyVerdict(hostKeys, Host, k) \in {"match", "unknown"}
  /\ serverKey' = k
  /\ IF HostKeyVerdict(hostKeys, Host, k) = "unknown"
     THEN /\ hostKeys' = hostKeys \cup {<<Host, k>>}
          /\ khFile' = IF hkFilename
                       THEN [exists |-> TRUE, keys |-> hostKeys \cup {<<Host, k>>}]
                       ELSE khFile
     ELSE UNCHANGED <<hostKeys, khFile>>

\* run, line 61: the key is accepted and password authentication fails.
ConnectAuthFail ==
  /\ pc = "client"
  /\ \E k \in Keys : AcceptHostKey(k)
  /\ connectCalls' = connectCalls + 1
  /\ ret' = [kind |-> "raised", val |-> 0]
  /\ pc' = "raised"
  /\ UNCHANGED <<envVars, runs, password, hint, hkFilename, execCalls,
                 connected, closed, code, exitStatus>>

\* run, line 61: connect returns.
ConnectOk ==
  /\ pc = "client"
  /\ \E k \in Keys : AcceptHostKey(k)
  /\ connectCalls' = connectCalls + 1
  /\ connected' = TRUE
  /\ pc' = "connected"
  /\ UNCHANGED <<envVars, runs, password, hint, hkFilename, execCalls,
                 closed, code, ret, exitStatus>>

\* run, line 62: exec_command returns the three streams.
ExecCommandOk ==
  /\ pc = "connected"
  /\ execCalls' = execCalls + 1
  /\ pc' = "executing"
  /\ UNCHANGED <<envVars, khFile, runs, password, hint, hkFilename, hostKeys,
                 serverKey, connectCalls, connected, closed, code, ret, exitStatus>>

\* run, line 62: exec_command raises (the channel cannot be opened).
ExecCommandRaise ==
  /\ pc = "connected"
  /\ execCalls' = execCalls + 1
  /\ ret' = [kind |-> "raised", val |-> 0]
  /\ pc' = "raised"
  /\ UNCHANGED <<envVars, khFile, runs, password, hint, hkFilename, hostKeys,
                 serverKey, connectCalls, connected, closed, code, exitStatus>>

\* run, lines 63-64: both streams are read to their end and decoded.
ReadStreamsOk ==
  /\ pc = "executing"
  /\ pc' = "read"
  /\ UNCHANGED <<envVars, khFile, runs, password, hint, clientVars, code, ret,
                 exitStatus>>

\* run, lines 63-64: a read raises (the 300 s channel timeout).
ReadStreamsRaise ==
  /\ pc = "executing"
  /\ ret' = [kind |-> "raised", val |-> 0]
  /\ pc' = "raised"
  /\ UNCHANGED <<envVars, khFile, runs, password, hint, clientVars, code,
                 exitStatus>>

\* run, line 65: recv_exit_status.
RecvExitStatus ==
  /\ pc = "read"
  /\ \E c \in RecvCodes : code' = [got |-> TRUE, val |-> c]
  /\ pc' = "got_code"
  /\ UNCHANGED <<envVars, khFile, runs, password, hint, clientVars, ret,
                 exitStatus>>

\* run, lines 66-71: the client is closed, the output is printed, the code
\* is returned.
CloseAndReturn ==
  /\ pc = "got_code"
  /\ closed' = TRUE
  /\ ret' = [kind |-> "returned", val |-> code.val]
  /\ pc' = "returned"
  /\ UNCHANGED <<envVars, khFile, runs, password, hint, hkFilename, hostKeys,
                 serverKey, connectCalls, execCalls, connected, code, exitStatus>>

\* __main__, line 75: exit(run(cmd)).
Exit ==
  /\ pc = "returned"
  /\ exitStatus' = ExitStatus(ret.val)
  /\ pc' = "exited"
  /\ UNCHANGED <<envVars, khFile, runs, password, hint, clientVars, code, ret>>

\* __main__, line 75: run raised; the interpreter prints the traceback and
\* the process ends with status 1.
UncaughtExit ==
  /\ pc = "raised"
  /\ exitStatus' = UncaughtStatus
  /\ pc' = "exited"
  /\ UNCHANGED <<envVars, khFile, runs, password, hint, clientVars, code, ret>>

Next ==
  \/ Invoke
  \/ ResolveRaise
  \/ ResolveFail
  \/ ResolveOk
  \/ Setup
  \/ ConnectUnreachable
  \/ ConnectBadHostKey
  \/ ConnectAuthFail
  \/ ConnectOk
  \/ ExecCommandOk
  \/ ExecCommandRaise
  \/ ReadStreamsOk
  \/ ReadStreamsRaise
  \/ RecvExitStatus
  \/ CloseAndReturn
  \/ Exit
  \/ UncaughtExit

Spec == Init /\ [][Next]_vars

\* ------------------------------------------------------------- properties
\* get_password has ended in the current invocation.
Resolved == pc \notin {"idle", "run"}
\* The invocation is over.
Ended == pc = "exited"
\* connect, exec_command, the reads and recv_exit_status all completed and
\* run returned.
Completed == code.got /\ ret.kind = "returned"
\* No network call was made in this invocation.
NoNetwork == connectCalls = 0 /\ execCalls = 0

\* What each source holds on its own, whatever the other sources hold.
ExplicitPresent == Truthy(envPwFile) /\ pwFile.st = "readable"
EnvPresent == Truthy(envPw)
DefaultPresent == defFile.st = "readable"
ExplicitYields == ExplicitPresent /\ Strip(pwFile.content) # <<>>
DefaultYields == DefaultPresent /\ Strip(defFile.content) # <<>>

\* C1: credential precedence. Once get_password has returned, the password is
\* the stripped content of the SSH_PASSWORD_FILE file when that file is
\* readable; else SSH_PASSWORD verbatim when it is non-empty; else the
\* stripped content of the default file; the text of a lower-priority source
\* never appears in the result.
C1_Precedence ==
  Resolved =>
    /\ ExplicitPresent =>
         /\ password.kind = "str"
         /\ password.val = Strip(pwFile.content)
         /\ \A i \in 1..Len(password.val) : password.val[i] \notin {"b", "c"}
    /\ (~Truthy(envPwFile) /\ EnvPresent) =>
         /\ password.kind = "str"
         /\ password.val = envPw.val
         /\ \A i \in 1..Len(password.val) : password.val[i] # "c"
    /\ (~Truthy(envPwFile) /\ ~EnvPresent /\ DefaultPresent) =>
         /\ password.kind = "str"
         /\ password.val = Strip(defFile.content)

\* C1 witness: all three sources hold a password and the one returned is
\* the content of the SSH_PASSWORD_FILE file.
C1_Witness ==
  /\ Resolved
  /\ ExplicitYields /\ EnvPresent /\ DefaultYields
  /\ pwFile.content = <<" ", "a">>
  /\ password.val = <<"a">>

\* C2: SSH_PASSWORD_FILE is set and its file cannot be read: get_password
\* returns None having read neither SSH_PASSWORD nor the default file, and
\* run returns 1.
C2_UnreadableFileIsTerminal ==
  (Resolved /\ Truthy(envPwFile) /\ pwFile.st # "readable") =>
    /\ password.kind = "none"
    /\ password.diag
    /\ "default" \notin password.reads
    /\ ret = [kind |-> "returned", val |-> 1]
    /\ NoNetwork
    /\ Ended => exitStatus = 1

\* C2 witness: the named file is missing while SSH_PASSWORD and the default
\* file both hold a password, and the process has exited with 1.
C2_Witness ==
  /\ Ended
  /\ Truthy(envPwFile) /\ pwFile.st = "absent"
  /\ EnvPresent /\ DefaultYields
  /\ password.kind = "none"
  /\ exitStatus = 1

\* C3 (as claimed): when none of the three sources yields a password, run
\* returns 1 and no connect or exec_command call was made.
C3_NoCredentialReturnsOne ==
  (Ended /\ ~ExplicitYields /\ ~EnvPresent /\ ~DefaultYields) =>
    /\ ret = [kind |-> "returned", val |-> 1]
    /\ NoNetwork

\* C4 (as claimed): a completed run returns the remote exit code c and the
\* process exits with c; the process exit status is 1 only when no
\* credential was resolved.
C4_ExitOneOnlyWithoutCredential ==
  Ended =>
    /\ (Completed /\ code.val \in RemoteCodes) =>
         (ret.val = code.val /\ exitStatus = code.val)
    /\ exitStatus = 1 => (password.kind # "str" \/ password.val = <<>>)

\* C4 (amended): a completed run returns the remote exit code c and the
\* process exits with c; the process exit status is 1 only when no
\* credential was resolved, or the remote command itself exited with 1, or
\* run ended by an uncaught error.
C4_ExitStatusForwarded ==
  Ended =>
    /\ (Completed /\ code.val \in RemoteCodes) =>
         (ret.val = code.val /\ exitStatus = code.val)
    /\ exitStatus = 1 =>
         \/ password.kind # "str" \/ password.val = <<>>
         \/ Completed /\ code.val = 1
         \/ ret.kind = "raised"

\* C4 witness: the remote command exited with 7 and so did the process.
C4_Witness ==
  Ended /\ Completed /\ code.val = 7 /\ ret.val = 7 /\ exitStatus = 7

\* C5 (as claimed): whenever connect succeeded, close has been called by the
\* time run ends.
C5_ClosedOnEveryExit ==
  (connected /\ pc \in {"returned", "raised", "exited"}) => closed

\* C6 (as claimed): no invocation in which a credential was resolved and the
\* remote command ran to its exit status ends with the process exit status
\* of the credential-failure path.
C6_FailureStatusDistinct ==
  (Ended /\ Completed) => exitStatus # UsageStatus

\* C6 (amended): run returns 1 when credential resolution failed, and an
\* invocation whose remote command ran to its exit code ends with that same
\* process exit status exactly when the remote exit code is 1.
C6_FailureStatusSharedOnlyWithOne ==
  Ended =>
    /\ (ret.kind = "returned" /\ ~code.got) =>
         (NotPassword(password) /\ ret.val = 1 /\ exitStatus = 1)
    /\ (Completed /\ code.val \in RemoteCodes) =>
         (exitStatus = 1 <=> code.val = 1)

\* C6 witness: a credential was resolved, the remote command exited with 1,
\* and the process exit status is that of the credential-failure path.
C6_Witness ==
  Ended /\ Completed /\ ~NotPassword(password) /\ code.val = 1 /\ exitStatus = 1

\* C7 (as claimed): with no known_hosts file, a successful first connection
\* to an unknown host leaves that host's key written to known_hosts.
C7_TofuKeyPersisted ==
  (connected /\ ~hkFilename) =>
    (khFile.exists /\ <<Host, serverKey>> \in khFile.keys)

\* C8: a host whose recorded key differs from the presented one is rejected
\* and exec_command is not called; a command is executed only when the
\* presented key is the one key held for the host (recorded, or just added
\* for an unknown host).
C8_MismatchBlocksExec ==
  /\ (connectCalls > 0 /\ serverKey # NoKey /\ hkFilename
        /\ KeysOf(khFile.keys, Host) # {} /\ <<Host, serverKey>> \notin khFile.keys) =>
       (~connected /\ execCalls = 0 /\ pc \in {"raised", "exited"})
  /\ execCalls > 0 => KeysOf(hostKeys, Host) = {serverKey}

\* C8 witness: known_hosts records k1 for the host, the server presented k2,
\* and the invocation ended without a command.
C8_Witness ==
  /\ Ended /\ hkFilename
  /\ khFile.keys = {<<Host, "k1">>} /\ serverKey = "k2"
  /\ execCalls = 0 /\ ret.kind = "raised"

\* C9 (as claimed): get_password always ends by returning a password or
\* None, and reads at most one file.
C9_DefiniteOutcome ==
  Resolved => (password.kind \in {"str", "none"} /\ Cardinality(password.reads) <= 1)

\* C10: the source selected by precedence is a readable file that is empty
\* after stripping: run returns 1 with the usage hint, makes no network
\* call, and takes no password from a lower-priority source.
C10_EmptyFileIsNoCredential ==
  (Resolved /\ \/ ExplicitPresent /\ Strip(pwFile.content) = <<>>
               \/ ~Truthy(envPwFile) /\ ~EnvPresent /\ DefaultPresent
                    /\ Strip(defFile.content) = <<>>) =>
    /\ password = PwStr(<<>>, password.reads, FALSE)
    /\ Cardinality(password.reads) = 1
    /\ hint
    /\ ret = [kind |-> "returned", val |-> 1]
    /\ NoNetwork
    /\ Ended => exitStatus = 1

\* C10 witness: the SSH_PASSWORD_FILE file holds only blanks while
\* SSH_PASSWORD and the default file hold passwords; the process exited 1.
C10_Witness ==
  /\ Ended
  /\ ExplicitPresent /\ pwFile.content = <<" ", " ">>
  /\ EnvPresent /\ DefaultYields
  /\ hint /\ exitStatus = 1 /\ NoNetwork

====
